---- MODULE Spec2Model ----
(***************************************************************************)
(* State-machine model of the OAuth2 credential lifecycle manager of pens  *)
(* (src/src/oauth_token_manager.cpp, src/src/oauth_helper.cpp).            *)
(*                                                                         *)
(* JSON documents (the token file, the token-endpoint response) and the    *)
(* form-encoded request body are modelled as functions from the keys that  *)
(* occur in the document to their values; a key that does not occur is     *)
(* not in the DOMAIN.                                                      *)
(***************************************************************************)
EXTENDS Integers, Sequences, FiniteSets, TLC

VARIABLES
    now,          \* std::time(nullptr), epoch seconds
    ticks,        \* number of clock advances so far (bounded by MaxTicks)
    config,       \* the constructor's copy of the Config getters
    file,         \* the token file: [exists, json]
    token,        \* OAuthTokenManager::token_
    tokenLoaded,  \* OAuthTokenManager::tokenLoaded_
    pc,           \* per task: position inside ensureValidToken
    call,         \* per task: record of the current / last ensureValidToken call
    calls,        \* number of ensureValidToken invocations so far
    got,          \* value returned by the last getAccessToken()
    lastExchange, \* the last response that performTokenRequest accepted, and when
    helperCall,   \* the last call of a stateless helper: [fn, args, result]
    client        \* the mail client object (SmtpClient or ImapClient), if any

vars == <<now, ticks, config, file, token, tokenLoaded, pc, call, calls, got,
          lastExchange, helperCall, client>>

\* the state of the token manager and of the helpers
managerVars == <<now, ticks, config, file, token, tokenLoaded, pc, call, calls, got,
                 lastExchange, helperCall>>

----------------------------------------------------------------------------
(* Bounds *)

MaxTicks == 2
MaxCalls == 2

(* Program constants *)

ExpiryBuffer == 300
DefaultExpiresIn == 3600
AssertionLifetime == 3600

(* Scenario values *)

StartTime == 1700000000
Deltas == {1, 300}
Tasks == {1, 2}

EmptyJson == <<>>
EmptyToken == [accessToken |-> "", refreshToken |-> "", expiresAt |-> 0, expiresIn |-> 0]

----------------------------------------------------------------------------
(* JSON field access *)

Has(json, key) == key \in DOMAIN json

\* parseJsonString: found flag and the value written through the reference
\* (the old value is kept when the key is not found)
parseJsonString(json, key, old) ==
    IF Has(json, key) THEN [found |-> TRUE, value |-> json[key]]
    ELSE [found |-> FALSE, value |-> old]

\* the number after the key starts with '-' (timestamps are held as pairs)
IsNegative(json, key) ==
    IF key \in {"acquired_at", "expires_at"} THEN json[key][1] < 0 ELSE json[key] < 0

\* parseJsonInt: same for integer fields.  The number starts at the first of
\* "-0123456789" and ends before the first non-digit from there on, so for a
\* negative number the text handed to std::stol is empty, stol throws, and
\* the field counts as not found.
parseJsonInt(json, key, old) ==
    IF Has(json, key) /\ ~IsNegative(json, key)
    THEN [found |-> TRUE, value |-> json[key]]
    ELSE [found |-> FALSE, value |-> old]

MakeJson(keys, a, r, ein, acq, eat) ==
    [k \in keys |->
        CASE k = "access_token" -> a
          [] k = "refresh_token" -> r
          [] k = "expires_in" -> ein
          [] k = "acquired_at" -> acq
          [] k = "expires_at" -> eat]

(* Timestamps in the token file are 64-bit (long); a value v is held as the *)
(* pair <<v \div 10^6, v % 10^6>> so that millisecond epochs can be written. *)
Million == 1000000
Long(v) == <<v \div Million, v % Million>>
LongMillis(sec) == <<sec \div 1000, (sec % 1000) * 1000>>

\* v > 1000000000000L
IsMillis(v) == v[1] > Million \/ (v[1] = Million /\ v[2] > 0)

\* if (v > 1000000000000L) v /= 1000;
NormEpoch(v) ==
    IF IsMillis(v) THEN v[1] * 1000 + (v[2] \div 1000)
    ELSE v[1] * Million + v[2]

----------------------------------------------------------------------------
(* OAuthTokenManager::loadTokenFromFile *)

\* variant: a file without timestamp fields gets expiresAt = expiresIn
loadTokenFromFile_NoSentinel(f, tok) ==
    IF ~f.exists THEN [ok |-> FALSE, token |-> tok]
    ELSE
      LET a == parseJsonString(f.json, "access_token", tok.accessToken)
          r == parseJsonString(f.json, "refresh_token", tok.refreshToken)
          ein == parseJsonInt(f.json, "expires_in", 0)
          acq == parseJsonInt(f.json, "acquired_at", Long(0))
          eat == parseJsonInt(f.json, "expires_at", Long(0))
          expiresIn == IF ein.found THEN ein.value ELSE DefaultExpiresIn
          expiresAt == IF acq.found THEN NormEpoch(acq.value) + expiresIn
                       ELSE IF eat.found THEN NormEpoch(eat.value)
                       ELSE expiresIn
      IN IF ~a.found THEN [ok |-> FALSE, token |-> tok]
         ELSE [ok |-> TRUE,
               token |-> [accessToken |-> a.value, refreshToken |-> r.value,
                          expiresAt |-> expiresAt, expiresIn |-> expiresIn]]

\* variant: refresh_token is read before access_token is required
loadTokenFromFile_KeepPartial(f, tok) ==
    IF ~f.exists THEN [ok |-> FALSE, token |-> tok]
    ELSE
      LET a == parseJsonString(f.json, "access_token", tok.accessToken)
          r == parseJsonString(f.json, "refresh_token", tok.refreshToken)
          ein == parseJsonInt(f.json, "expires_in", 0)
          acq == parseJsonInt(f.json, "acquired_at", Long(0))
          eat == parseJsonInt(f.json, "expires_at", Long(0))
          expiresIn == IF ein.found THEN ein.value ELSE DefaultExpiresIn
          expiresAt == IF acq.found THEN NormEpoch(acq.value) + expiresIn
                       ELSE IF eat.found THEN NormEpoch(eat.value)
                       ELSE 0
      IN IF ~a.found THEN [ok |-> FALSE, token |-> [tok EXCEPT !.refreshToken = r.value]]
         ELSE [ok |-> TRUE,
               token |-> [accessToken |-> a.value, refreshToken |-> r.value,
                          expiresAt |-> expiresAt, expiresIn |-> expiresIn]]

\* variant: expires_at is preferred to acquired_at
loadTokenFromFile_ExpiresAtFirst(f, tok) ==
    IF ~f.exists THEN [ok |-> FALSE, token |-> tok]
    ELSE
      LET a == parseJsonString(f.json, "access_token", tok.accessToken)
          r == parseJsonString(f.json, "refresh_token", tok.refreshToken)
          ein == parseJsonInt(f.json, "expires_in", 0)
          acq == parseJsonInt(f.json, "acquired_at", Long(0))
          eat == parseJsonInt(f.json, "expires_at", Long(0))
          expiresIn == IF ein.found THEN ein.value ELSE DefaultExpiresIn
          expiresAt == IF eat.found THEN NormEpoch(eat.value)
                       ELSE IF acq.found THEN NormEpoch(acq.value) + expiresIn
                       ELSE 0
      IN IF ~a.found THEN [ok |-> FALSE, token |-> tok]
         ELSE [ok |-> TRUE,
               token |-> [accessToken |-> a.value, refreshToken |-> r.value,
                          expiresAt |-> expiresAt, expiresIn |-> expiresIn]]

loadTokenFromFile(f, tok) ==
    IF ~f.exists THEN [ok |-> FALSE, token |-> tok]
    ELSE
      LET a == parseJsonString(f.json, "access_token", tok.accessToken)
          r == parseJsonString(f.json, "refresh_token", tok.refreshToken)
          ein == parseJsonInt(f.json, "expires_in", 0)
          acq == parseJsonInt(f.json, "acquired_at", Long(0))
          eat == parseJsonInt(f.json, "expires_at", Long(0))
          expiresIn == IF ein.found THEN ein.value ELSE DefaultExpiresIn
          expiresAt == IF acq.found THEN NormEpoch(acq.value) + expiresIn
                       ELSE IF eat.found THEN NormEpoch(eat.value)
                       ELSE 0
      IN IF ~a.found THEN [ok |-> FALSE, token |-> tok]
         ELSE [ok |-> TRUE,
               token |-> [accessToken |-> a.value, refreshToken |-> r.value,
                          expiresAt |-> expiresAt, expiresIn |-> expiresIn]]

\* variant: only the access token and its lifetime are written
SavedJson_AccessOnly(tok, acquiredAt) ==
    MakeJson({"access_token", "expires_in", "acquired_at"},
             tok.accessToken, tok.refreshToken, tok.expiresIn, Long(acquiredAt), Long(0))

(* OAuthTokenManager::saveTokenToFile: the text written to the stream *)
SavedJson(tok, acquiredAt) ==
    MakeJson({"access_token", "refresh_token", "expires_in", "acquired_at"},
             tok.accessToken, tok.refreshToken, tok.expiresIn, Long(acquiredAt), Long(0))

----------------------------------------------------------------------------
(* OAuthTokenManager::ensureValidToken: the decisions of lines 38-54 *)

\* variant: the 300 s buffer applied to a token without refresh token
UsableWithoutRefresh_Buffered(tok, currentTime) ==
    tok.expiresAt = 0 \/ currentTime < tok.expiresAt - ExpiryBuffer

\* line 44: a token without refresh token is usable
UsableWithoutRefresh(tok, currentTime) ==
    tok.expiresAt = 0 \/ currentTime < tok.expiresAt

\* variant: no safety buffer
StillFresh_NoBuffer(tok, currentTime) ==
    tok.expiresAt # 0 /\ currentTime < tok.expiresAt

\* line 52: no refresh is needed
StillFresh(tok, currentTime) ==
    tok.expiresAt # 0 /\ currentTime < tok.expiresAt - ExpiryBuffer

\* variant: an empty access token is renewed when a refresh token exists
Decide_RenewMissing(tok, currentTime) ==
    IF tok.accessToken = "" /\ tok.refreshToken = "" THEN "missing_access_token"
    ELSE IF tok.refreshToken = "" THEN
        IF UsableWithoutRefresh(tok, currentTime) THEN "valid_no_refresh_token"
        ELSE "cannot_renew"
    ELSE IF tok.accessToken # "" /\ StillFresh(tok, currentTime) THEN "valid"
    ELSE "refresh"

Decide(tok, currentTime) ==
    IF tok.accessToken = "" THEN "missing_access_token"
    ELSE IF tok.refreshToken = "" THEN
        IF UsableWithoutRefresh(tok, currentTime) THEN "valid_no_refresh_token"
        ELSE "cannot_renew"
    ELSE IF StillFresh(tok, currentTime) THEN "valid"
    ELSE "refresh"

\* variant: the client secret is preferred to the certificate
SelectStrategy_SecretFirst(cfg) ==
    IF cfg.clientId = "" THEN "no_client_id"
    ELSE IF cfg.tenantId = "" THEN "no_tenant_id"
    ELSE IF cfg.clientSecret # "" THEN "secret"
    ELSE IF cfg.certificatePath # "" /\ cfg.privateKeyPath # "" THEN "certificate"
    ELSE "no_trust"

\* variant: one of the two certificate paths is enough
SelectStrategy_EitherPath(cfg) ==
    IF cfg.clientId = "" THEN "no_client_id"
    ELSE IF cfg.tenantId = "" THEN "no_tenant_id"
    ELSE IF cfg.certificatePath # "" \/ cfg.privateKeyPath # "" THEN "certificate"
    ELSE IF cfg.clientSecret # "" THEN "secret"
    ELSE "no_trust"

\* variant: the trust mechanism is chosen before the identifiers are checked
SelectStrategy_TrustFirst(cfg) ==
    IF cfg.certificatePath # "" /\ cfg.privateKeyPath # "" THEN "certificate"
    ELSE IF cfg.clientSecret # "" THEN "secret"
    ELSE IF cfg.clientId = "" THEN "no_client_id"
    ELSE IF cfg.tenantId = "" THEN "no_tenant_id"
    ELSE "no_trust"

(* OAuthTokenManager::refreshAccessToken: the configuration checks and the  *)
(* choice of the trust mechanism                                            *)
SelectStrategy(cfg) ==
    IF cfg.clientId = "" THEN "no_client_id"
    ELSE IF cfg.tenantId = "" THEN "no_tenant_id"
    ELSE IF cfg.certificatePath # "" /\ cfg.privateKeyPath # "" THEN "certificate"
    ELSE IF cfg.clientSecret # "" THEN "secret"
    ELSE "no_trust"

TokenEndpoint(tenantId) ==
    <<"https://login.microsoftonline.com/", tenantId, "/oauth2/v2.0/token">>

(* OAuthHelper::generateClientAssertion.  env names what the file system   *)
(* and the signing library do: "ok", or the step that fails.  The JWT      *)
(* header '.' payload '.' signature is held as its three segments, each by  *)
(* what it encodes; the empty string of the code is EmptyAssertion.         *)
AssertionEnv == {"ok", "key_open", "key_parse", "thumbprint", "sign"}

EmptyAssertion == <<>>

\* RSA-SHA256 of signatureInput with the private key
Sign(privateKeyPath, signatureInput) ==
    [alg |-> "RSA-SHA256", key |-> privateKeyPath, input |-> signatureInput]

\* variant: the assertion is addressed to the tenant-independent endpoint
generateClientAssertion_CommonAudience(clientId, tenantId, certificatePath, privateKeyPath, env, time) ==
    IF env # "ok" THEN EmptyAssertion
    ELSE LET header == [alg |-> "RS256", typ |-> "JWT", x5t |-> <<"x5t", certificatePath>>]
             payload == [aud |-> TokenEndpoint("common"),
                         exp |-> time + AssertionLifetime,
                         iss |-> clientId,
                         jti |-> <<time, time % 1000000>>,
                         nbf |-> time,
                         sub |-> clientId]
         IN <<header, payload, Sign(privateKeyPath, <<header, payload>>)>>

generateClientAssertion(clientId, tenantId, certificatePath, privateKeyPath, env, time) ==
    IF env # "ok" THEN EmptyAssertion
    ELSE LET header == [alg |-> "RS256", typ |-> "JWT", x5t |-> <<"x5t", certificatePath>>]
             payload == [aud |-> TokenEndpoint(tenantId),
                         exp |-> time + AssertionLifetime,
                         iss |-> clientId,
                         jti |-> <<time, time % 1000000>>,
                         nbf |-> time,
                         sub |-> clientId]
         IN <<header, payload, Sign(privateKeyPath, <<header, payload>>)>>

(* The form body of the refresh request: parameter name -> (decoded) value *)
CertificateBody(cfg, refreshToken, clientAssertion) ==
    [k \in {"client_id", "grant_type", "refresh_token", "client_assertion_type",
            "client_assertion"} \cup (IF cfg.scope # "" THEN {"scope"} ELSE {}) |->
        CASE k = "client_id" -> cfg.clientId
          [] k = "grant_type" -> "refresh_token"
          [] k = "refresh_token" -> refreshToken
          [] k = "client_assertion_type" ->
                 "urn:ietf:params:oauth:client-assertion-type:jwt-bearer"
          [] k = "client_assertion" -> clientAssertion
          [] k = "scope" -> cfg.scope]

SecretBody(cfg, refreshToken) ==
    [k \in {"client_id", "grant_type", "refresh_token", "client_secret"}
           \cup (IF cfg.scope # "" THEN {"scope"} ELSE {}) |->
        CASE k = "client_id" -> cfg.clientId
          [] k = "grant_type" -> "refresh_token"
          [] k = "refresh_token" -> refreshToken
          [] k = "client_secret" -> cfg.clientSecret
          [] k = "scope" -> cfg.scope]

NoRequest == [endpoint |-> <<>>, body |-> <<>>]

----------------------------------------------------------------------------
(* OAuthTokenManager::performTokenRequest, after curl_easy_perform returned *)

\* the token-endpoint replies: transport result, HTTP status, JSON body
Is2xx(httpCode) == ~(httpCode < 200 \/ httpCode >= 300)

\* variant: the refresh token is always taken from the response
ApplyResponse_AlwaysOverwrite(tok, resp, time) ==
    IF resp.curl # "ok" \/ ~Is2xx(resp.http) THEN [ok |-> FALSE, token |-> tok]
    ELSE
      LET a == parseJsonString(resp.body, "access_token", "")
          r == parseJsonString(resp.body, "refresh_token", "")
          ein == parseJsonInt(resp.body, "expires_in", 0)
          expiresIn == IF ein.found THEN ein.value ELSE DefaultExpiresIn
      IN IF ~a.found THEN [ok |-> FALSE, token |-> tok]
         ELSE [ok |-> TRUE,
               token |-> [accessToken |-> a.value, refreshToken |-> r.value,
                          expiresAt |-> time + expiresIn, expiresIn |-> expiresIn]]

\* variant: the lifetime announced by the response is ignored
ApplyResponse_DefaultLifetime(tok, resp, time) ==
    IF resp.curl # "ok" \/ ~Is2xx(resp.http) THEN [ok |-> FALSE, token |-> tok]
    ELSE
      LET a == parseJsonString(resp.body, "access_token", "")
          r == parseJsonString(resp.body, "refresh_token", "")
      IN IF ~a.found THEN [ok |-> FALSE, token |-> tok]
         ELSE [ok |-> TRUE,
               token |-> [accessToken |-> a.value,
                          refreshToken |-> IF r.found /\ r.value # "" THEN r.value
                                           ELSE tok.refreshToken,
                          expiresAt |-> time + DefaultExpiresIn,
                          expiresIn |-> DefaultExpiresIn]]

\* variant: the refresh token is rotated before access_token is looked for
ApplyResponse_RotateFirst(tok, resp, time) ==
    IF resp.curl # "ok" \/ ~Is2xx(resp.http) THEN [ok |-> FALSE, token |-> tok]
    ELSE
      LET a == parseJsonString(resp.body, "access_token", "")
          r == parseJsonString(resp.body, "refresh_token", "")
          ein == parseJsonInt(resp.body, "expires_in", 0)
          expiresIn == IF ein.found THEN ein.value ELSE DefaultExpiresIn
          rotated == IF r.found /\ r.value # "" THEN r.value ELSE tok.refreshToken
      IN IF ~a.found THEN [ok |-> FALSE, token |-> [tok EXCEPT !.refreshToken = rotated]]
         ELSE [ok |-> TRUE,
               token |-> [accessToken |-> a.value, refreshToken |-> rotated,
                          expiresAt |-> time + expiresIn, expiresIn |-> expiresIn]]

\* variant: an invalid_grant reply discards the rejected refresh token
ApplyResponse_DropRejectedGrant(tok, resp, time) ==
    IF resp.curl # "ok" THEN [ok |-> FALSE, token |-> tok]
    ELSE IF ~Is2xx(resp.http)
    THEN [ok |-> FALSE,
          token |-> IF parseJsonString(resp.body, "error", "").value = "invalid_grant"
                    THEN [tok EXCEPT !.refreshToken = ""] ELSE tok]
    ELSE
      LET a == parseJsonString(resp.body, "access_token", "")
          r == parseJsonString(resp.body, "refresh_token", "")
          ein == parseJsonInt(resp.body, "expires_in", 0)
          expiresIn == IF ein.found THEN ein.value ELSE DefaultExpiresIn
      IN IF ~a.found THEN [ok |-> FALSE, token |-> tok]
         ELSE [ok |-> TRUE,
               token |-> [accessToken |-> a.value,
                          refreshToken |-> IF r.found /\ r.value # "" THEN r.value
                                           ELSE tok.refreshToken,
                          expiresAt |-> time + expiresIn, expiresIn |-> expiresIn]]

\* variant: after a failed exchange the record is held back for one lifetime
ApplyResponse_BackoffOnFailure(tok, resp, time) ==
    IF resp.curl # "ok" \/ ~Is2xx(resp.http)
    THEN [ok |-> FALSE, token |-> [tok EXCEPT !.expiresAt = time + DefaultExpiresIn]]
    ELSE
      LET a == parseJsonString(resp.body, "access_token", "")
          r == parseJsonString(resp.body, "refresh_token", "")
          ein == parseJsonInt(resp.body, "expires_in", 0)
          expiresIn == IF ein.found THEN ein.value ELSE DefaultExpiresIn
      IN IF ~a.found THEN [ok |-> FALSE, token |-> tok]
         ELSE [ok |-> TRUE,
               token |-> [accessToken |-> a.value,
                          refreshToken |-> IF r.found /\ r.value # "" THEN r.value
                                           ELSE tok.refreshToken,
                          expiresAt |-> time + expiresIn, expiresIn |-> expiresIn]]

\* lines 249-335: result and the record as the code leaves it before the save
ApplyResponse(tok, resp, time) ==
    IF resp.curl # "ok" THEN [ok |-> FALSE, token |-> tok]
    ELSE IF ~Is2xx(resp.http) THEN [ok |-> FALSE, token |-> tok]
    ELSE
      LET a == parseJsonString(resp.body, "access_token", "")
          r == parseJsonString(resp.body, "refresh_token", "")
          ein == parseJsonInt(resp.body, "expires_in", 0)
          expiresIn == IF ein.found THEN ein.value ELSE DefaultExpiresIn
      IN IF ~a.found THEN [ok |-> FALSE, token |-> tok]
         ELSE [ok |-> TRUE,
               token |-> [accessToken |-> a.value,
                          refreshToken |-> IF r.found /\ r.value # "" THEN r.value
                                           ELSE tok.refreshToken,
                          expiresAt |-> time + expiresIn,
                          expiresIn |-> expiresIn]]

\* variant: AADSTS40016 is not recognised as an invalid grant
ErrorHint_NoAlias(errorCode) ==
    IF errorCode = "" THEN "none"
    ELSE IF errorCode = "AADSTS700016" THEN "application_not_found"
    ELSE IF errorCode = "AADSTS7000215" THEN "invalid_client_secret"
    ELSE IF errorCode = "AADSTS7000218" THEN "assertion_or_secret_required"
    ELSE IF errorCode = "AADSTS70011" THEN "invalid_scope"
    ELSE IF errorCode = "AADSTS50173" THEN "fresh_authentication_required"
    ELSE IF errorCode = "invalid_grant" THEN "invalid_grant"
    ELSE "no_hint"

(* performTokenRequest, lines 254-314: what is logged for a non-2xx reply.  *)
(* hint names the branch of the chain over the error code (the block of     *)
(* LOG_ERROR lines it prints), detail the text of the last LOG_ERROR.       *)
ErrorHint(errorCode) ==
    IF errorCode = "" THEN "none"
    ELSE IF errorCode = "AADSTS700016" THEN "application_not_found"
    ELSE IF errorCode = "AADSTS7000215" THEN "invalid_client_secret"
    ELSE IF errorCode = "AADSTS7000218" THEN "assertion_or_secret_required"
    ELSE IF errorCode = "AADSTS70011" THEN "invalid_scope"
    ELSE IF errorCode = "AADSTS50173" THEN "fresh_authentication_required"
    ELSE IF errorCode = "invalid_grant" \/ errorCode = "AADSTS40016" THEN "invalid_grant"
    ELSE "no_hint"

NoDiagnostic == [code |-> "", hint |-> "none", detail |-> <<"none">>]

Diagnose(resp) ==
    IF resp.curl # "ok" \/ Is2xx(resp.http) THEN NoDiagnostic
    ELSE
      LET errorCode == parseJsonString(resp.body, "error", "").value
          errorDescription == parseJsonString(resp.body, "error_description", "").value
      IN [code |-> errorCode,
          hint |-> ErrorHint(errorCode),
          detail |-> IF errorDescription # "" THEN <<"Error Description: ", errorDescription>>
                     ELSE <<"Response: ", resp.body>>]

----------------------------------------------------------------------------
(* Initial states: a freshly constructed manager, any configuration, any    *)
(* token file left by the helper scripts or by an earlier save              *)

Configs ==
    [clientId : {"", "client"}, tenantId : {"", "tenant"}, scope : {"", "scope"},
     certificatePath : {"", "cert.pem"}, privateKeyPath : {"", "key.pem"},
     clientSecret : {"", "secret"}]

\* which of expires_in / acquired_at / expires_at the file carries
StampKeySets ==
    {{}, {"expires_in", "acquired_at"}, {"acquired_at"}, {"expires_at"},
     {"expires_in", "acquired_at", "expires_at"}}

InitFiles ==
    {[exists |-> FALSE, json |-> EmptyJson]} \cup
    {[exists |-> TRUE,
      json |-> MakeJson(ks \cup ss, a, "R", DefaultExpiresIn,
                        IF "expires_in" \in ss THEN Long(StartTime - 3299)
                        ELSE LongMillis(StartTime - 1800),
                        Long(StartTime + 1))] :
        ks \in SUBSET {"access_token", "refresh_token"}, ss \in StampKeySets,
        a \in {"", "A"}}

\* the replies the token endpoint gives in the main scenarios
Responses ==
    {[curl |-> "error", http |-> 0, body |-> EmptyJson],
     [curl |-> "ok", http |-> 400,
      body |-> [error |-> "invalid_grant", error_description |-> "text"]],
     [curl |-> "ok", http |-> 200, body |-> [refresh_token |-> "S", expires_in |-> 0]],
     [curl |-> "ok", http |-> 200, body |-> [access_token |-> "B"]],
     [curl |-> "ok", http |-> 200,
      body |-> [access_token |-> "B", refresh_token |-> "S", expires_in |-> 0]],
     [curl |-> "ok", http |-> 200, body |-> [access_token |-> "", refresh_token |-> ""]]}

NoHelperCall == [fn |-> "none", args |-> <<>>, at |-> 0, result |-> <<>>]

\* no mail client has been constructed
NoClient ==
    [kind |-> "none", useSsl |-> FALSE, port |-> 0, connected |-> FALSE,
     authenticated |-> FALSE, op |-> "none", log |-> <<>>, ret |-> "none"]
NoResponse == [curl |-> "none", http |-> 0, body |-> EmptyJson]
NoExchange == [at |-> 0, response |-> NoResponse]

\* the record kept of a call: what it read on entry, what it sent and got
NoCall ==
    [branch |-> "none", strategy |-> "none", clientAssertion |-> EmptyAssertion,
     currentTime |-> 0, loaded |-> FALSE, entryToken |-> EmptyToken,
     entryFile |-> EmptyJson, request |-> NoRequest, requests |-> 0,
     response |-> NoResponse, respondedAt |-> 0, diagnostic |-> NoDiagnostic,
     pending |-> EmptyJson, ret |-> "none"]

Init ==
    /\ now = StartTime
    /\ ticks = 0
    /\ config \in Configs
    /\ file \in InitFiles
    /\ token = EmptyToken
    /\ tokenLoaded = FALSE
    /\ pc = [t \in Tasks |-> "idle"]
    /\ call = [t \in Tasks |-> NoCall]
    /\ calls = 0
    /\ got = ""
    /\ lastExchange = NoExchange
    /\ helperCall = NoHelperCall
    /\ client = NoClient

----------------------------------------------------------------------------
(* bool OAuthTokenManager::ensureValidToken(), up to the point where it     *)
(* returns or blocks in curl_easy_perform.  pc[t] = "returned" is the state *)
(* in which the caller holds the result call[t].ret.                        *)

\* variant: a failed assertion falls back to the client secret
Attempt_FallbackToSecret(cfg, tok, env, time) ==
    LET strategy == SelectStrategy(cfg)
        assertion == IF strategy = "certificate"
                     THEN generateClientAssertion(cfg.clientId, cfg.tenantId,
                              cfg.certificatePath, cfg.privateKeyPath, env.assertion, time)
                     ELSE EmptyAssertion
        fallback == strategy = "certificate" /\ assertion = EmptyAssertion
                       /\ cfg.clientSecret # ""
        body == IF strategy = "certificate" /\ ~fallback
                THEN CertificateBody(cfg, tok.refreshToken, assertion)
                ELSE SecretBody(cfg, tok.refreshToken)
        sends == /\ strategy \in {"certificate", "secret"}
                 /\ (strategy = "certificate" => (assertion # EmptyAssertion \/ fallback))
                 /\ env.curlInit
    IN [strategy |-> strategy, clientAssertion |-> assertion, sends |-> sends,
        request |-> IF sends THEN [endpoint |-> TokenEndpoint(cfg.tenantId), body |-> body]
                    ELSE NoRequest]

\* refreshAccessToken up to curl_easy_perform: what is sent, if anything
Attempt(cfg, tok, env, time) ==
    LET strategy == SelectStrategy(cfg)
        assertion == IF strategy = "certificate"
                     THEN generateClientAssertion(cfg.clientId, cfg.tenantId,
                              cfg.certificatePath, cfg.privateKeyPath, env.assertion, time)
                     ELSE EmptyAssertion
        body == IF strategy = "certificate"
                THEN CertificateBody(cfg, tok.refreshToken, assertion)
                ELSE SecretBody(cfg, tok.refreshToken)
        sends == /\ strategy \in {"certificate", "secret"}
                 /\ (strategy = "certificate" => assertion # EmptyAssertion)
                 /\ env.curlInit
    IN [strategy |-> strategy, clientAssertion |-> assertion, sends |-> sends,
        request |-> IF sends THEN [endpoint |-> TokenEndpoint(cfg.tenantId), body |-> body]
                    ELSE NoRequest]

\* what the environment decides during an attempt; only the certificate
\* strategy reads the key and certificate files
AttemptEnvs(cfg) ==
    [assertion : IF SelectStrategy(cfg) = "certificate" THEN AssertionEnv ELSE {"ok"},
     curlInit : IF SelectStrategy(cfg) \in {"certificate", "secret"} THEN BOOLEAN
                ELSE {TRUE}]

\* variant: the token file is read again by every call
LoadOnce_EveryCall(loaded, f, tok) ==
    LET lr == loadTokenFromFile(f, tok)
    IN [ok |-> lr.ok, token |-> lr.token, loaded |-> (loaded \/ lr.ok)]

\* variant: the flag records that a load was attempted, not that it succeeded
LoadOnce_MarkAttempted(loaded, f, tok) ==
    IF loaded THEN [ok |-> TRUE, token |-> tok, loaded |-> TRUE]
    ELSE LET lr == loadTokenFromFile(f, tok)
         IN [ok |-> lr.ok, token |-> lr.token, loaded |-> TRUE]

\* ensureValidToken lines 29-35: the file is read only while tokenLoaded_ is
\* false, and the flag is set only after a load that succeeded
LoadOnce(loaded, f, tok) ==
    IF loaded THEN [ok |-> TRUE, token |-> tok, loaded |-> TRUE]
    ELSE LET lr == loadTokenFromFile(f, tok)
         IN [ok |-> lr.ok, token |-> lr.token, loaded |-> lr.ok]

EnsureValidToken(t) ==
    /\ pc[t] \in {"idle", "returned"}
    /\ calls < MaxCalls
    /\ calls' = calls + 1
    /\ LET lr == LoadOnce(tokenLoaded, file, token)
           branch == IF lr.ok THEN Decide(lr.token, now) ELSE "load_failed"
           refreshing == branch = "refresh"
       IN \E env \in IF refreshing THEN AttemptEnvs(config)
                     ELSE {[assertion |-> "ok", curlInit |-> TRUE]} :
            LET att == Attempt(config, lr.token, env, now)
                blocked == refreshing /\ att.sends
            IN /\ token' = lr.token
               /\ tokenLoaded' = lr.loaded
               /\ call' = [call EXCEPT ![t] =
                      [branch |-> branch,
                       strategy |-> IF refreshing THEN att.strategy ELSE "none",
                       clientAssertion |-> IF refreshing THEN att.clientAssertion
                                           ELSE EmptyAssertion,
                       currentTime |-> now,
                       loaded |-> (~tokenLoaded /\ lr.ok),
                       entryToken |-> lr.token,
                       entryFile |-> file.json,
                       request |-> IF refreshing THEN att.request ELSE NoRequest,
                       requests |-> IF blocked THEN 1 ELSE 0,
                       response |-> NoResponse,
                       respondedAt |-> 0,
                       diagnostic |-> NoDiagnostic,
                       pending |-> EmptyJson,
                       ret |-> IF blocked THEN "none"
                               ELSE IF branch \in {"valid", "valid_no_refresh_token"}
                                    THEN "true" ELSE "false"]]
               /\ pc' = [pc EXCEPT ![t] = IF blocked THEN "awaiting" ELSE "returned"]
    /\ UNCHANGED <<now, ticks, config, file, got, lastExchange, helperCall, client>>

\* variant: a transport error is retried once before the call gives up
RespondFrom_Retry(t, replies) ==
    /\ pc[t] = "awaiting"
    /\ \E resp \in replies :
         LET res == ApplyResponse(token, resp, now)
             again == resp.curl # "ok" /\ call[t].requests < 2
         IN \E canOpen \in IF res.ok THEN BOOLEAN ELSE {TRUE} :
            /\ token' = res.token
            /\ lastExchange' = IF res.ok THEN [at |-> now, response |-> resp] ELSE lastExchange
            /\ IF res.ok /\ canOpen
               THEN /\ file' = [exists |-> TRUE, json |-> EmptyJson]
                    /\ call' = [call EXCEPT ![t].response = resp, ![t].respondedAt = now,
                                   ![t].diagnostic = Diagnose(resp),
                                   ![t].pending = SavedJson(res.token, now)]
                    /\ pc' = [pc EXCEPT ![t] = "writing"]
               ELSE /\ file' = file
                    /\ call' = [call EXCEPT ![t].response = resp, ![t].respondedAt = now,
                                   ![t].diagnostic = Diagnose(resp),
                                   ![t].requests = IF again THEN @ + 1 ELSE @,
                                   ![t].ret = IF again THEN "none" ELSE "false"]
                    /\ pc' = [pc EXCEPT ![t] = IF again THEN "awaiting" ELSE "returned"]
    /\ UNCHANGED <<now, ticks, config, tokenLoaded, calls, got, helperCall, client>>

(* curl_easy_perform returns: the rest of performTokenRequest and the       *)
(* opening (truncation) of the token file by saveTokenToFile                *)
RespondFrom(t, replies) ==
    /\ pc[t] = "awaiting"
    /\ \E resp \in replies :
         LET res == ApplyResponse(token, resp, now)
         IN \E canOpen \in IF res.ok THEN BOOLEAN ELSE {TRUE} :
            /\ token' = res.token
            /\ lastExchange' = IF res.ok THEN [at |-> now, response |-> resp]
                               ELSE lastExchange
            /\ IF res.ok /\ canOpen
               THEN /\ file' = [exists |-> TRUE, json |-> EmptyJson]
                    /\ call' = [call EXCEPT ![t].response = resp,
                                            ![t].respondedAt = now,
                                            ![t].diagnostic = Diagnose(resp),
                                            ![t].pending = SavedJson(res.token, now)]
                    /\ pc' = [pc EXCEPT ![t] = "writing"]
               ELSE /\ file' = file
                    /\ call' = [call EXCEPT ![t].response = resp,
                                            ![t].respondedAt = now,
                                            ![t].diagnostic = Diagnose(resp),
                                            ![t].ret = "false"]
                    /\ pc' = [pc EXCEPT ![t] = "returned"]
    /\ UNCHANGED <<now, ticks, config, tokenLoaded, calls, got, helperCall, client>>

Respond(t) == RespondFrom(t, Responses)

(* saveTokenToFile returns true (line 138) and the stream is flushed and    *)
(* closed by its destructor; the state of the stream is never tested, so a  *)
(* write that fails (written = FALSE: disk full, I/O error) goes unnoticed  *)
SaveWrite(t) ==
    /\ pc[t] = "writing"
    /\ \E written \in BOOLEAN :
         file' = [exists |-> TRUE,
                  json |-> IF written THEN call[t].pending ELSE EmptyJson]
    /\ call' = [call EXCEPT ![t].ret = "true"]
    /\ pc' = [pc EXCEPT ![t] = "returned"]
    /\ UNCHANGED <<now, ticks, config, token, tokenLoaded, calls, got, lastExchange, helperCall,
                   client>>

\* variant: the access token is handed out once and cleared
GetAccessToken_Consuming(t) ==
    /\ pc[t] \in {"idle", "returned"}
    /\ got' = token.accessToken
    /\ token' = [token EXCEPT !.accessToken = ""]
    /\ UNCHANGED <<now, ticks, config, file, tokenLoaded, pc, call, calls, lastExchange,
                   helperCall, client>>

(* std::string OAuthTokenManager::getAccessToken() const *)
GetAccessToken(t) ==
    /\ pc[t] \in {"idle", "returned"}
    /\ got' = token.accessToken
    /\ UNCHANGED <<now, ticks, config, file, token, tokenLoaded, pc, call, calls, lastExchange, helperCall,
                   client>>

(* the clock advances *)
Tick ==
    /\ ticks < MaxTicks
    /\ ticks' = ticks + 1
    /\ \E d \in Deltas : now' = now + d
    /\ UNCHANGED <<config, file, token, tokenLoaded, pc, call, calls, got, lastExchange, helperCall,
                   client>>

Next ==
    \/ EnsureValidToken(1)
    \/ Respond(1)
    \/ SaveWrite(1)
    \/ GetAccessToken(1)
    \/ Tick

Spec == Init /\ [][Next]_vars

----------------------------------------------------------------------------
(* Two tasks share one manager: the class has no lock (oauth_token_manager. *)
(* hpp, lines 41-49), so their steps interleave at the blocking points      *)

NextConc ==
    \/ \E t \in Tasks : EnsureValidToken(t)
    \/ \E t \in Tasks : Respond(t)
    \/ \E t \in Tasks : SaveWrite(t)
    \/ GetAccessToken(1)
    \/ Tick

\* started from the states where both calls have something to refresh with
InitConc ==
    /\ Init
    /\ config.clientId # "" /\ config.tenantId # "" /\ config.scope # ""
    /\ config.certificatePath = config.privateKeyPath
    /\ file.exists
    /\ {"access_token", "refresh_token", "expires_in"} \subseteq DOMAIN file.json
    /\ file.json["access_token"] # ""

SpecConc == InitConc /\ [][NextConc]_vars

(* The exchange in detail: one manager with a complete configuration and a  *)
(* record that is due, and every shape of reply the code distinguishes      *)

ErrorCodes ==
    {"invalid_grant", "AADSTS40016", "AADSTS700016", "AADSTS7000215",
     "AADSTS7000218", "AADSTS70011", "AADSTS50173", "temporarily_unavailable"}

ExchangeResponses ==
    {[curl |-> "error", http |-> 0, body |-> EmptyJson],
     [curl |-> "ok", http |-> 500, body |-> EmptyJson],
     [curl |-> "ok", http |-> 400, body |-> [error_description |-> "text"]],
     [curl |-> "ok", http |-> 401, body |-> [error |-> "invalid_client"]]} \cup
    {[curl |-> "ok", http |-> 400,
      body |-> [error |-> e, error_description |-> "text"]] : e \in ErrorCodes} \cup
    {[curl |-> "ok", http |-> 200,
      body |-> [k \in ks |-> CASE k = "access_token" -> a
                               [] k = "refresh_token" -> r
                               [] k = "expires_in" -> 1800]] :
        ks \in SUBSET {"access_token", "refresh_token", "expires_in"},
        a \in {"", "B"}, r \in {"", "S"}}

RespondAny(t) == RespondFrom(t, ExchangeResponses)

InitExchange ==
    /\ Init
    /\ config.clientId # "" /\ config.tenantId # "" /\ config.scope # ""
    /\ (config.certificatePath = "") = (config.privateKeyPath = "")
    /\ config.clientSecret # ""
    /\ file.exists
    /\ {"access_token", "refresh_token"} \subseteq DOMAIN file.json
    /\ DOMAIN file.json \in {{"access_token", "refresh_token"},
                            {"access_token", "refresh_token", "expires_in", "acquired_at"}}
    /\ file.json["access_token"] # ""

NextExchange ==
    \/ EnsureValidToken(1)
    \/ RespondAny(1)
    \/ SaveWrite(1)
    \/ GetAccessToken(1)
    \/ Tick

SpecExchange == InitExchange /\ [][NextExchange]_vars

(* The calls up to the point where a request leaves the process, for every  *)
(* configuration and token file: the endpoint does not answer, so a call    *)
(* that has sent its request stays in curl_easy_perform.                    *)
NextEntry ==
    \/ EnsureValidToken(1)
    \/ GetAccessToken(1)
    \/ Tick

SpecEntry == Init /\ [][NextEntry]_vars

(* The token file is also written by other programs (the helper scripts     *)
(* that obtain the first token): between two steps of the manager the file  *)
(* may be replaced or removed.                                              *)
ExternalFiles ==
    {[exists |-> FALSE, json |-> EmptyJson],
     [exists |-> TRUE, json |-> MakeJson({"access_token"}, "A", "", 0, Long(0), Long(0))],
     [exists |-> TRUE,
      json |-> MakeJson({"access_token", "refresh_token", "expires_in", "acquired_at"},
                        "C", "Q", DefaultExpiresIn, Long(StartTime), Long(0))]}

ExternalWrite ==
    /\ \E f \in ExternalFiles : f # file /\ file' = f
    /\ UNCHANGED <<now, ticks, config, token, tokenLoaded, pc, call, calls, got,
                   lastExchange, helperCall, client>>

InitExternal ==
    /\ Init
    /\ config.clientId # "" /\ config.tenantId # "" /\ config.scope # ""
    /\ config.certificatePath = "" /\ config.privateKeyPath = ""
    /\ config.clientSecret # ""

NextExternal ==
    \/ EnsureValidToken(1)
    \/ Respond(1)
    \/ SaveWrite(1)
    \/ GetAccessToken(1)
    \/ Tick
    \/ ExternalWrite

SpecExternal == InitExternal /\ [][NextExternal]_vars

(* A caller that retries on its own cadence: the calls are made one after   *)
(* the other, and the two slots of call are used in turn, so that the      *)
(* record of a call stays beside the record of the call that follows it.   *)
NextCall(t) ==
    /\ t = (calls % 2) + 1
    /\ \A u \in Tasks : pc[u] \in {"idle", "returned"}
    /\ EnsureValidToken(t)

\* while the manager has no record, the helper script may provide a file
ProvideTokenFile ==
    /\ ~tokenLoaded
    /\ \A u \in Tasks : pc[u] \in {"idle", "returned"}
    /\ ExternalWrite

InitRetry ==
    /\ Init
    /\ config.clientId # "" /\ config.tenantId # "" /\ config.scope # ""
    /\ (config.certificatePath = "") = (config.privateKeyPath = "")
    /\ config.clientSecret # ""

NextRetry ==
    \/ \E t \in Tasks : NextCall(t)
    \/ \E t \in Tasks : Respond(t)
    \/ \E t \in Tasks : SaveWrite(t)
    \/ Tick
    \/ ProvideTokenFile

SpecRetry == InitRetry /\ [][NextRetry]_vars

(* The token store by itself: loadTokenFromFile by a fresh manager on any   *)
(* token file, saveTokenToFile of the record it holds, and the load of the  *)
(* saved file by another fresh manager.  call[1].entryFile is the file that *)
(* was read, call[1].entryToken the record that was saved.                  *)

StoreFiles ==
    {[exists |-> FALSE, json |-> EmptyJson]} \cup
    {[exists |-> TRUE, json |-> MakeJson(ks, "A", r, ein, acq, eat)] :
        ks \in SUBSET {"access_token", "refresh_token", "expires_in", "acquired_at",
                       "expires_at"},
        r \in {"", "R"}, ein \in {0, 1800},
        acq \in {Long(StartTime - 3299), LongMillis(StartTime - 1800), <<Million, 1>>},
        eat \in {Long(StartTime + 1), <<1700000, 1999>>}}

InitStore ==
    /\ now = StartTime
    /\ ticks = 0
    /\ config \in {c \in Configs : c.clientId = "" /\ c.tenantId = "" /\ c.scope = ""
                                   /\ c.certificatePath = "" /\ c.privateKeyPath = ""
                                   /\ c.clientSecret = ""}
    /\ file \in StoreFiles
    /\ token = EmptyToken
    /\ tokenLoaded = FALSE
    /\ pc = [t \in Tasks |-> "idle"]
    /\ call = [t \in Tasks |-> NoCall]
    /\ calls = 0
    /\ got = ""
    /\ lastExchange = NoExchange
    /\ helperCall = NoHelperCall
    /\ client = NoClient

LoadToken ==
    /\ pc[1] \in {"idle", "saved"}
    /\ LET lr == loadTokenFromFile(file, EmptyToken)
       IN /\ token' = lr.token
          /\ tokenLoaded' = lr.ok
          /\ call' = [call EXCEPT ![1].loaded = lr.ok, ![1].entryFile = file.json]
          /\ pc' = [pc EXCEPT ![1] = IF ~lr.ok THEN "load_failed"
                                     ELSE IF pc[1] = "idle" THEN "loaded" ELSE "reloaded"]
    /\ UNCHANGED <<now, ticks, config, file, calls, got, lastExchange, helperCall, client>>

\* saveTokenToFile when the file can be opened and written
SaveToken ==
    /\ pc[1] = "loaded"
    /\ file' = [exists |-> TRUE, json |-> SavedJson(token, now)]
    /\ call' = [call EXCEPT ![1].entryToken = token]
    /\ pc' = [pc EXCEPT ![1] = "saved"]
    /\ UNCHANGED <<now, ticks, config, token, tokenLoaded, calls, got, lastExchange, helperCall,
                   client>>

NextStore ==
    \/ LoadToken
    \/ SaveToken
    \/ Tick

SpecStore == InitStore /\ [][NextStore]_vars

(* The stateless helpers: OAuthHelper::isTokenExpired and the              *)
(* VerificationCodeGenerator.  Strings are sequences of characters.         *)

HelperExpiryBuffer == 300

\* variant: the token expires only after the buffered lifetime has passed
isTokenExpired_Strict(tokenTimestamp, expiresIn, currentTime) ==
    LET elapsedSeconds == currentTime - tokenTimestamp
    IN elapsedSeconds > (expiresIn - HelperExpiryBuffer)

isTokenExpired(tokenTimestamp, expiresIn, currentTime) ==
    LET elapsedSeconds == currentTime - tokenTimestamp
    IN elapsedSeconds >= (expiresIn - HelperExpiryBuffer)

\* seconds since acquisition and lifetimes the helper is asked about
Ages == {-60, 0, 60, 1800, 3299, 3300, 3301, 3600, 3601, 7200}
Lifetimes == {-1, 0, 299, 300, 301, 3600, 7200}

IsTokenExpired ==
    /\ \E age \in Ages, expiresIn \in Lifetimes :
         helperCall' = [fn |-> "isTokenExpired", args |-> <<now - age, expiresIn>>,
                        at |-> now,
                        result |-> isTokenExpired(now - age, expiresIn, now)]
    /\ UNCHANGED <<now, ticks, config, file, token, tokenLoaded, pc, call, calls, got,
                   lastExchange, client>>

DigitChars == <<"0", "1", "2", "3", "4", "5", "6", "7", "8", "9">>

\* ::isdigit in the "C" locale
IsDigit(c) == \E i \in 1..10 : DigitChars[i] = c

\* operator<<(int) for a value >= 0
RECURSIVE Decimal(_)
Decimal(n) ==
    IF n < 10 THEN <<DigitChars[n + 1]>>
    ELSE Append(Decimal(n \div 10), DigitChars[(n % 10) + 1])

\* std::setw(width) << std::setfill('0'): a minimum width, filled on the left
RECURSIVE SetW(_, _)
SetW(s, width) == IF Len(s) >= width THEN s ELSE SetW(<<"0">> \o s, width)

CodeWidth == 6
DistMin == 100000
DistMax == 999999

\* values dist_(gen_) can return: every leading digit, extreme other digits
Draws ==
    {n \in {a * 100000 + b * 10000 + c * 1000 + d * 100 + e * 10 + f :
              a \in {0, 1, 5, 9}, b \in {0, 9}, c \in {0, 9}, d \in {0, 9}, e \in {0, 9},
              f \in {0, 9}} : DistMin <= n /\ n <= DistMax}

\* variant: the length of the code is not checked
validate_AnyLength(code) == \A i \in 1..Len(code) : IsDigit(code[i])

validate(code) ==
    IF Len(code) # CodeWidth THEN FALSE
    ELSE \A i \in 1..Len(code) : IsDigit(code[i])

\* the strings validate is called with
CodeStrings ==
    UNION {[1..n -> {"0", "a"}] : n \in {5, 6, 7}}
      \cup {<<>>, <<"1", "2", "3", "4", "5", " ">>, <<"-", "1", "2", "3", "4", "5">>,
            <<"9", "9", "9", "9", "9", "9">>, <<"1", "2", "3", "4", "5", "6", "7">>}

Generate ==
    /\ \E code \in Draws :
         helperCall' = [fn |-> "generate", args |-> <<code>>, at |-> now,
                        result |-> SetW(Decimal(code), CodeWidth)]
    /\ UNCHANGED <<now, ticks, config, file, token, tokenLoaded, pc, call, calls, got,
                   lastExchange, client>>

\* validate of any string, or of the code that generate has just returned
Validate ==
    /\ \E code \in CodeStrings \cup (IF helperCall.fn = "generate" THEN {helperCall.result}
                                     ELSE {}) :
         helperCall' = [fn |-> "validate", args |-> <<code>>, at |-> now,
                        result |-> validate(code)]
    /\ UNCHANGED <<now, ticks, config, file, token, tokenLoaded, pc, call, calls, got,
                   lastExchange, client>>

(* The helper and the manager asked about the same token: a manager without *)
(* client configuration loads a token file, and the helper is called with   *)
(* the acquired_at and expires_in that the file carries.                    *)
ExpiryFiles ==
    {[exists |-> TRUE,
      json |-> MakeJson({"access_token", "refresh_token", "expires_in", "acquired_at"},
                        "A", "R", ein, acq, Long(0))] :
        ein \in Lifetimes, acq \in {Long(StartTime - age) : age \in Ages} \cup {Long(0)}}

IsTokenExpiredOfFile ==
    /\ file.exists
    /\ LET tokenTimestamp == file.json["acquired_at"][1] * Million
                                + file.json["acquired_at"][2]
           expiresIn == file.json["expires_in"]
       IN helperCall' = [fn |-> "isTokenExpired", args |-> <<tokenTimestamp, expiresIn>>,
                         at |-> now,
                         result |-> isTokenExpired(tokenTimestamp, expiresIn, now)]
    /\ UNCHANGED <<now, ticks, config, file, token, tokenLoaded, pc, call, calls, got,
                   lastExchange, client>>

InitExpiry ==
    /\ now = StartTime
    /\ ticks = 0
    /\ config \in {c \in Configs : c.clientId = "" /\ c.tenantId = "" /\ c.scope = ""
                                   /\ c.certificatePath = "" /\ c.privateKeyPath = ""
                                   /\ c.clientSecret = ""}
    /\ file \in ExpiryFiles
    /\ token = EmptyToken
    /\ tokenLoaded = FALSE
    /\ pc = [t \in Tasks |-> "idle"]
    /\ call = [t \in Tasks |-> NoCall]
    /\ calls = 0
    /\ got = ""
    /\ lastExchange = NoExchange
    /\ helperCall = NoHelperCall
    /\ client = NoClient

NextExpiry ==
    \/ EnsureValidToken(1)
    \/ IsTokenExpiredOfFile
    \/ Tick

SpecExpiry == InitExpiry /\ [][NextExpiry]_vars

InitHelpers ==
    /\ InitStore
    /\ ~file.exists

NextHelpers ==
    \/ IsTokenExpired
    \/ Generate
    \/ Validate
    \/ Tick

SpecHelpers == InitHelpers /\ [][NextHelpers]_vars

(* The process is killed in the middle of a call and started again: the     *)
(* unflushed stream buffer and the in-memory record are lost, the file      *)
(* stays as the last system call left it                                    *)

Crash ==
    /\ pc[1] \in {"awaiting", "writing"}
    /\ pc' = [pc EXCEPT ![1] = "crashed"]
    /\ token' = EmptyToken
    /\ tokenLoaded' = FALSE
    /\ lastExchange' = NoExchange
    /\ UNCHANGED <<now, ticks, config, file, call, calls, got, helperCall, client>>

Restart ==
    /\ pc[1] = "crashed"
    /\ pc' = [pc EXCEPT ![1] = "idle"]
    /\ UNCHANGED <<now, ticks, config, file, token, tokenLoaded, call, calls, got, lastExchange, helperCall,
                   client>>

NextCrash ==
    \/ EnsureValidToken(1)
    \/ Respond(1)
    \/ SaveWrite(1)
    \/ GetAccessToken(1)
    \/ Tick
    \/ Crash
    \/ Restart

SpecCrash == Init /\ [][NextCrash]_vars

----------------------------------------------------------------------------
(* The mail clients: SmtpClient (src/src/smtp_client.cpp) and ImapClient    *)
(* (src/src/imap_client.cpp).  client holds the flags of the object, the    *)
(* name of the member function called last, the bytes that call exchanged   *)
(* with the server, in order, as <<"send", command>> and <<"recv", reply>>, *)
(* and the value it returned.  An SMTP reply is named by its first three    *)
(* characters, "none" when recv returns no bytes; an IMAP response is the   *)
(* sequence of its words.                                                   *)

Begin(c, op) == [c EXCEPT !.op = op, !.log = <<>>, !.ret = "none"]
Return(c, value) == [c EXCEPT !.ret = IF value THEN "true" ELSE "false"]

\* SmtpClient::sendCommand: nothing is sent while connected_ is false
SmtpClient_sendCommand(c, command) ==
    IF ~c.connected THEN c
    ELSE [c EXCEPT !.log = Append(@, <<"send", command>>)]

\* SmtpClient::readResponse: the receive, and the comparison of the code
SmtpClient_recv(c, reply) == [c EXCEPT !.log = Append(@, <<"recv", reply>>)]
SmtpClient_readResponse(reply, expectedCode) ==
    IF reply = "none" THEN FALSE ELSE reply = expectedCode

\* what the resolver, the socket and the TLS library do during connect
ConnectEnv == {"ok", "resolve", "socket", "connect", "ssl_ctx", "handshake"}

\* SmtpClient::connect; r[1..4] are the replies that the reads receive
SmtpClient_connect(c0, env, r) ==
    LET c == Begin(c0, "connect")
        c1 == SmtpClient_recv(c, r[1])
        c2 == SmtpClient_recv(SmtpClient_sendCommand(c1, "EHLO"), r[2])
        c3 == SmtpClient_recv(SmtpClient_sendCommand(c2, "STARTTLS"), r[3])
        c4 == SmtpClient_recv(SmtpClient_sendCommand(c3, "EHLO"), r[4])
    IN IF env \in {"resolve", "socket", "connect"} THEN Return(c, FALSE)
       ELSE IF ~SmtpClient_readResponse(r[1], "220") THEN Return(c1, FALSE)
       ELSE IF ~SmtpClient_readResponse(r[2], "250") THEN Return(c2, FALSE)
       ELSE IF c.useSsl /\ c.port # 465
       THEN IF ~SmtpClient_readResponse(r[3], "220") THEN Return(c3, FALSE)
            ELSE IF env \in {"ssl_ctx", "handshake"} THEN Return(c3, FALSE)
            ELSE IF ~SmtpClient_readResponse(r[4], "250") THEN Return(c4, FALSE)
            ELSE Return([c4 EXCEPT !.connected = TRUE], TRUE)
       ELSE Return([c2 EXCEPT !.connected = TRUE], TRUE)

\* SmtpClient::authenticate (AUTH LOGIN)
SmtpClient_authenticate(c0, r) ==
    LET c == Begin(c0, "authenticate")
        c1 == SmtpClient_recv(SmtpClient_sendCommand(c, "AUTH LOGIN"), r[1])
        c2 == SmtpClient_recv(SmtpClient_sendCommand(c1, "username"), r[2])
        c3 == SmtpClient_recv(SmtpClient_sendCommand(c2, "password"), r[3])
    IN IF ~c.connected THEN Return(c, FALSE)
       ELSE IF ~SmtpClient_readResponse(r[1], "334") THEN Return(c1, FALSE)
       ELSE IF ~SmtpClient_readResponse(r[2], "334") THEN Return(c2, FALSE)
       ELSE IF ~SmtpClient_readResponse(r[3], "235") THEN Return(c3, FALSE)
       ELSE Return([c3 EXCEPT !.authenticated = TRUE], TRUE)

\* SmtpClient::disconnect
SmtpClient_disconnect(c0, r) ==
    LET c == Begin(c0, "disconnect")
        c1 == IF c.authenticated
              THEN SmtpClient_recv(SmtpClient_sendCommand(c, "QUIT"), r[1])
              ELSE c
    IN IF ~c.connected THEN Return(c, TRUE)
       ELSE Return([c1 EXCEPT !.connected = FALSE, !.authenticated = FALSE], TRUE)

\* variant: the reply to DATA is read but not compared
SmtpClient_sendEmail_AnyDataReply(c0, r) ==
    LET c == Begin(c0, "sendEmail")
        c1 == SmtpClient_recv(SmtpClient_sendCommand(c, "MAIL FROM"), r[1])
        c2 == SmtpClient_recv(SmtpClient_sendCommand(c1, "RCPT TO"), r[2])
        c3 == SmtpClient_recv(SmtpClient_sendCommand(c2, "DATA"), r[3])
        c4 == SmtpClient_recv(
                  SmtpClient_sendCommand(SmtpClient_sendCommand(c3, "message"), "."), r[4])
    IN IF ~c.authenticated THEN Return(c, FALSE)
       ELSE IF ~SmtpClient_readResponse(r[1], "250") THEN Return(c1, FALSE)
       ELSE IF ~SmtpClient_readResponse(r[2], "250") THEN Return(c2, FALSE)
       ELSE IF r[3] = "none" THEN Return(c3, FALSE)
       ELSE IF ~SmtpClient_readResponse(r[4], "250") THEN Return(c4, FALSE)
       ELSE Return(c4, TRUE)

\* SmtpClient::sendEmail; "message" is the text of formatEmail, "." the
\* end-of-data marker
SmtpClient_sendEmail(c0, r) ==
    LET c == Begin(c0, "sendEmail")
        c1 == SmtpClient_recv(SmtpClient_sendCommand(c, "MAIL FROM"), r[1])
        c2 == SmtpClient_recv(SmtpClient_sendCommand(c1, "RCPT TO"), r[2])
        c3 == SmtpClient_recv(SmtpClient_sendCommand(c2, "DATA"), r[3])
        c4 == SmtpClient_recv(
                  SmtpClient_sendCommand(SmtpClient_sendCommand(c3, "message"), "."), r[4])
    IN IF ~c.authenticated THEN Return(c, FALSE)
       ELSE IF ~SmtpClient_readResponse(r[1], "250") THEN Return(c1, FALSE)
       ELSE IF ~SmtpClient_readResponse(r[2], "250") THEN Return(c2, FALSE)
       ELSE IF ~SmtpClient_readResponse(r[3], "354") THEN Return(c3, FALSE)
       ELSE IF ~SmtpClient_readResponse(r[4], "250") THEN Return(c4, FALSE)
       ELSE Return(c4, TRUE)

\* SmtpClient::isConnected and ImapClient::isConnected
isConnected(c0) ==
    LET c == Begin(c0, "isConnected")
    IN Return(c, c.connected /\ c.authenticated)

\* ImapClient::sendCommand: the command, if any, and the response read
ImapClient_sendCommand(c, command, response) ==
    IF ~c.connected THEN [client |-> c, response |-> <<>>]
    ELSE [client |-> [c EXCEPT !.log = @ \o (IF command # "" THEN <<<<"send", command>>>>
                                              ELSE <<>>)
                                        \o <<<<"recv", response>>>>],
          response |-> response]

\* response.find("OK") != std::string::npos
FindOK(response) == \E i \in 1..Len(response) : response[i] = "OK"

\* ImapClient::connect
ImapClient_connect(c0, env, welcome) ==
    LET c == Begin(c0, "connect")
    IN IF env \in {"resolve", "socket", "connect"} THEN Return(c, FALSE)
       ELSE IF c.useSsl /\ env \in {"ssl_ctx", "handshake"} THEN Return(c, FALSE)
       ELSE Return(ImapClient_sendCommand([c EXCEPT !.connected = TRUE], "", welcome).client,
                   TRUE)

\* ImapClient::authenticate (LOGIN) and ImapClient::authenticateOAuth
\* (AUTHENTICATE XOAUTH2)
ImapClient_authenticate(c0, command, response) ==
    LET c == Begin(c0, IF command = "LOGIN" THEN "authenticate" ELSE "authenticateOAuth")
        x == ImapClient_sendCommand(c, command, response)
    IN IF ~c.connected THEN Return(c, FALSE)
       ELSE IF FindOK(x.response) THEN Return([x.client EXCEPT !.authenticated = TRUE], TRUE)
       ELSE Return(x.client, FALSE)

\* variant: LOGOUT only; the login flag survives the disconnect
ImapClient_disconnect_KeepLogin(c0, response) ==
    LET c == Begin(c0, "disconnect")
        c1 == IF c.authenticated THEN ImapClient_sendCommand(c, "LOGOUT", response).client
              ELSE c
    IN IF ~c.connected THEN Return(c, TRUE)
       ELSE Return([c1 EXCEPT !.connected = FALSE], TRUE)

\* ImapClient::disconnect
ImapClient_disconnect(c0, response) ==
    LET c == Begin(c0, "disconnect")
        c1 == IF c.authenticated THEN ImapClient_sendCommand(c, "LOGOUT", response).client
              ELSE c
    IN IF ~c.connected THEN Return(c, TRUE)
       ELSE Return([c1 EXCEPT !.connected = FALSE, !.authenticated = FALSE], TRUE)

\* the responses an IMAP server gives: nothing, the greeting, tagged results
ImapResponses == {<<>>, <<"*", "OK">>, <<"A", "OK">>, <<"A", "NO">>, <<"A", "BAD">>}

\* the clients that are constructed: SMTP with STARTTLS on 587, on port 465
\* and in plain text on 25; IMAP on 993 with and without TLS
MailClients ==
    {[NoClient EXCEPT !.kind = "smtp", !.useSsl = x[1], !.port = x[2]] :
        x \in {<<TRUE, 587>>, <<TRUE, 465>>, <<FALSE, 25>>}} \cup
    {[NoClient EXCEPT !.kind = "imap", !.useSsl = u, !.port = 993] : u \in BOOLEAN}

ConnectEnvs(c) ==
    IF c.useSsl /\ (c.kind = "imap" \/ c.port # 465) THEN ConnectEnv
    ELSE {"ok", "resolve", "socket", "connect"}

SmtpConnect ==
    /\ client.kind = "smtp"
    /\ \E env \in ConnectEnvs(client), r \in [1..4 -> {"none", "220", "250", "550"}] :
         client' = SmtpClient_connect(client, env, r)
    /\ UNCHANGED managerVars

SmtpAuthenticate ==
    /\ client.kind = "smtp"
    /\ \E r \in [1..3 -> {"none", "334", "235", "550"}] :
         client' = SmtpClient_authenticate(client, r)
    /\ UNCHANGED managerVars

SmtpDisconnect ==
    /\ client.kind = "smtp"
    /\ \E r \in [1..1 -> {"none", "221", "550"}] :
         client' = SmtpClient_disconnect(client, r)
    /\ UNCHANGED managerVars

SmtpSendEmail ==
    /\ client.kind = "smtp"
    /\ \E r \in [1..4 -> {"none", "250", "354", "550"}] :
         client' = SmtpClient_sendEmail(client, r)
    /\ UNCHANGED managerVars

IsConnected ==
    /\ client.kind \in {"smtp", "imap"}
    /\ client' = isConnected(client)
    /\ UNCHANGED managerVars

ImapConnect ==
    /\ client.kind = "imap"
    /\ \E env \in ConnectEnvs(client), welcome \in ImapResponses :
         client' = ImapClient_connect(client, env, welcome)
    /\ UNCHANGED managerVars

ImapAuthenticate ==
    /\ client.kind = "imap"
    /\ \E response \in ImapResponses :
         client' = ImapClient_authenticate(client, "LOGIN", response)
    /\ UNCHANGED managerVars

ImapAuthenticateOAuth ==
    /\ client.kind = "imap"
    /\ \E response \in ImapResponses :
         client' = ImapClient_authenticate(client, "AUTHENTICATE XOAUTH2", response)
    /\ UNCHANGED managerVars

ImapDisconnect ==
    /\ client.kind = "imap"
    /\ \E response \in ImapResponses :
         client' = ImapClient_disconnect(client, response)
    /\ UNCHANGED managerVars

InitMail ==
    /\ now = StartTime
    /\ ticks = 0
    /\ config \in {c \in Configs : c.clientId = "" /\ c.tenantId = "" /\ c.scope = ""
                                   /\ c.certificatePath = "" /\ c.privateKeyPath = ""
                                   /\ c.clientSecret = ""}
    /\ file = [exists |-> FALSE, json |-> EmptyJson]
    /\ token = EmptyToken
    /\ tokenLoaded = FALSE
    /\ pc = [t \in Tasks |-> "idle"]
    /\ call = [t \in Tasks |-> NoCall]
    /\ calls = 0
    /\ got = ""
    /\ lastExchange = NoExchange
    /\ helperCall = NoHelperCall
    /\ client \in MailClients

NextMail ==
    \/ SmtpConnect
    \/ SmtpAuthenticate
    \/ SmtpDisconnect
    \/ SmtpSendEmail
    \/ IsConnected
    \/ ImapConnect
    \/ ImapAuthenticate
    \/ ImapAuthenticateOAuth
    \/ ImapDisconnect

SpecMail == InitMail /\ [][NextMail]_vars

----------------------------------------------------------------------------
(* Properties *)

Called(t) == call[t].branch # "none"
Loaded(t) == call[t].branch \notin {"none", "load_failed"}
Untouched(t) == token = call[t].entryToken /\ file.json = call[t].entryFile
NothingSent(t) == call[t].requests = 0 /\ call[t].request = NoRequest
AllTrustConfigured ==
    config.certificatePath # "" /\ config.privateKeyPath # "" /\ config.clientSecret # ""

\* C1: for a loaded record with non-empty access and refresh token and
\* expiresAt # 0, ensureValidToken enters the refresh path exactly when
\* now >= expiresAt - 300; when now < expiresAt - 300 it returns true, sends
\* nothing and changes neither the record nor the file.
C1_ExpiryBoundary ==
    \A t \in Tasks :
        LET c == call[t]
            e == c.entryToken
        IN (Loaded(t) /\ e.accessToken # "" /\ e.refreshToken # "" /\ e.expiresAt # 0) =>
             /\ (c.branch = "refresh") <=> (c.currentTime >= e.expiresAt - 300)
             /\ (c.currentTime < e.expiresAt - 300) =>
                    (c.ret = "true" /\ NothingSent(t) /\ Untouched(t))

\* a call made exactly 3300 s after acquisition of a 3600 s token refreshes
C1_Witness ==
    /\ call[1].branch = "refresh"
    /\ call[1].entryToken.expiresAt # 0
    /\ call[1].entryToken.expiresIn = 3600
    /\ call[1].currentTime = call[1].entryToken.expiresAt - 300

\* C2: for a loaded record with non-empty access and refresh token and the
\* non-expiring sentinel expiresAt = 0, ensureValidToken returns true without
\* entering the refresh path and without sending a request.
C2_NonExpiringWithRefreshToken ==
    \A t \in Tasks :
        LET c == call[t]
            e == c.entryToken
        IN (Loaded(t) /\ e.accessToken # "" /\ e.refreshToken # "" /\ e.expiresAt = 0) =>
             (c.branch # "refresh" /\ c.ret = "true" /\ NothingSent(t))

\* C3: with a non-empty access token and an empty refresh token,
\* ensureValidToken returns true iff expiresAt = 0 or now < expiresAt (no
\* buffer), and either way sends nothing and changes neither record nor file.
C3_NoRefreshToken ==
    \A t \in Tasks :
        LET c == call[t]
            e == c.entryToken
        IN (Loaded(t) /\ e.accessToken # "" /\ e.refreshToken = "") =>
             /\ c.ret \in {"true", "false"}
             /\ (c.ret = "true") <=> (e.expiresAt = 0 \/ c.currentTime < e.expiresAt)
             /\ NothingSent(t)
             /\ Untouched(t)

\* an expired token without refresh token is refused, and one inside the
\* last 300 s was accepted
C3_Witness ==
    /\ call[1].entryToken.accessToken # ""
    /\ call[1].entryToken.refreshToken = ""
    /\ call[1].entryToken.expiresAt # 0
    /\ call[1].currentTime >= call[1].entryToken.expiresAt
    /\ call[1].ret = "false"

IsNonExpiringFileA(json) ==
    /\ Has(json, "access_token") /\ json["access_token"] = "A"
    /\ ~Has(json, "refresh_token")
    /\ ~Has(json, "acquired_at") /\ ~Has(json, "expires_at")

\* C4: after loading a file with access_token = A, no refresh_token and
\* neither acquired_at nor expires_at, every ensureValidToken call returns
\* true however far the clock has advanced, and getAccessToken then returns A.
C4_NonExpiringToken ==
    /\ [](\A t \in Tasks :
            (Called(t) /\ file.exists /\ IsNonExpiringFileA(call[t].entryFile))
                => call[t].ret = "true")
    /\ [][(GetAccessToken(1) /\ Called(1) /\ file.exists
              /\ IsNonExpiringFileA(call[1].entryFile)) => got' = "A"]_vars

C4_Witness ==
    /\ file.exists /\ IsNonExpiringFileA(call[1].entryFile)
    /\ calls = 2
    /\ call[1].currentTime > StartTime + 300
    /\ call[1].ret = "true"
    /\ got = "A"

\* C5: whenever ensureValidToken returns false after entering the refresh
\* path, the in-memory record is exactly what it was before the call.
C5_FailClosed ==
    \A t \in Tasks :
        (call[t].branch = "refresh" /\ call[t].ret = "false")
            => token = call[t].entryToken

\* C6: if the process crashes while the record is being saved, the token
\* file holds either the complete previous record or the complete new one.
C6_CrashConsistentSave ==
    (pc[1] = "crashed" /\ call[1].branch = "refresh")
        => (file.json = call[1].entryFile \/ file.json = call[1].pending)

InFlight(t) == pc[t] \in {"awaiting", "writing"}

\* C7: when two tasks call ensureValidToken concurrently, at most one
\* refresh exchange (request, response, save) is in progress at a time.
C7_SingleWriter ==
    \A t1, t2 \in Tasks : (InFlight(t1) /\ InFlight(t2)) => t1 = t2

\* C8: when certificatePath, privateKeyPath and clientSecret are all
\* configured, every request body sent contains client_assertion with the
\* jwt-bearer assertion type and never client_secret.
C8_StrategyPrecedence ==
    \A t \in Tasks :
        (AllTrustConfigured /\ call[t].requests > 0) =>
            LET body == call[t].request.body
            IN /\ Has(body, "client_assertion")
               /\ Has(body, "client_assertion_type")
               /\ body["client_assertion_type"] =
                      "urn:ietf:params:oauth:client-assertion-type:jwt-bearer"
               /\ ~Has(body, "client_secret")

C8_Witness ==
    /\ AllTrustConfigured
    /\ pc[1] = "awaiting"
    /\ Has(call[1].request.body, "client_assertion")

\* C9: with clientId and tenantId set, a refresh uses the certificate
\* strategy iff both certificate paths are non-empty; otherwise the secret
\* strategy iff clientSecret is non-empty; otherwise it fails and sends nothing.
C9_StrategySelection ==
    \A t \in Tasks :
        LET c == call[t]
            both == config.certificatePath # "" /\ config.privateKeyPath # ""
            sent == c.requests > 0
        IN (c.branch = "refresh" /\ config.clientId # "" /\ config.tenantId # "") =>
             /\ (c.strategy = "certificate") <=> both
             /\ (c.strategy = "secret") <=> (~both /\ config.clientSecret # "")
             /\ (sent /\ both) =>
                    (Has(c.request.body, "client_assertion")
                        /\ ~Has(c.request.body, "client_secret"))
             /\ (sent /\ ~both) =>
                    (Has(c.request.body, "client_secret")
                        /\ c.request.body["client_secret"] = config.clientSecret
                        /\ ~Has(c.request.body, "client_assertion"))
             /\ (~both /\ config.clientSecret = "") =>
                    (c.ret = "false" /\ NothingSent(t))

\* only one of the two certificate paths is set: the secret is used
C9_Witness ==
    /\ config.certificatePath # "" /\ config.privateKeyPath = ""
    /\ call[1].strategy = "secret"
    /\ pc[1] = "awaiting"
    /\ Has(call[1].request.body, "client_secret")

\* C10: if the client assertion cannot be produced, the refresh fails,
\* ensureValidToken returns false, nothing is sent, and the secret strategy
\* is not tried even when a clientSecret is configured.
C10_CertificateFailsFast ==
    \A t \in Tasks :
        (call[t].branch = "refresh" /\ call[t].strategy = "certificate"
            /\ call[t].clientAssertion = EmptyAssertion) =>
            (/\ pc[t] \in {"returned", "idle"}
             /\ call[t].ret = "false"
             /\ NothingSent(t)
             /\ Untouched(t))

C10_Witness ==
    /\ call[1].branch = "refresh"
    /\ call[1].strategy = "certificate"
    /\ call[1].clientAssertion = EmptyAssertion
    /\ config.clientSecret # ""
    /\ call[1].ret = "false"

\* C11: when a refresh is needed and clientId or tenantId is empty, the call
\* returns false, no client assertion is generated, no request is sent and
\* neither the record nor the file changes, whichever trust mechanism is
\* configured.
C11_MissingIdentity ==
    \A t \in Tasks :
        (call[t].branch = "refresh" /\ (config.clientId = "" \/ config.tenantId = "")) =>
            /\ pc[t] = "returned"
            /\ call[t].ret = "false"
            /\ call[t].strategy \in {"no_client_id", "no_tenant_id"}
            /\ call[t].clientAssertion = EmptyAssertion
            /\ NothingSent(t)
            /\ Untouched(t)

\* a refresh is due, certificate, key and secret are all configured, and
\* only the client id is missing
C11_Witness ==
    /\ call[1].branch = "refresh"
    /\ config.clientId = "" /\ config.tenantId # ""
    /\ AllTrustConfigured
    /\ call[1].ret = "false"

\* the exchange of the call of task t succeeded: its reply is the one
\* recorded as the last successful exchange
Exchanged(t) ==
    /\ call[t].response # NoResponse
    /\ lastExchange = [at |-> call[t].respondedAt, response |-> call[t].response]

\* C12: after a successful exchange the stored refresh token is the one of
\* the response when the response carries a non-empty refresh_token, and the
\* refresh token the call started with otherwise.
C12_RefreshTokenRotation ==
    \A t \in Tasks :
        Exchanged(t) =>
            LET body == call[t].response.body
            IN token.refreshToken =
                 IF "refresh_token" \in DOMAIN body /\ body["refresh_token"] # ""
                 THEN body["refresh_token"]
                 ELSE call[t].entryToken.refreshToken

\* an exchange whose reply carries an empty refresh_token keeps the old one
C12_Witness ==
    /\ Exchanged(1)
    /\ "refresh_token" \in DOMAIN call[1].response.body
    /\ call[1].response.body["refresh_token"] = ""
    /\ token.refreshToken = "R"

\* C13: from a successful exchange on, and until the next one, accessToken
\* is the access_token of the response, expiresIn its expires_in (3600 when
\* absent) and expiresAt the time of the refresh plus expiresIn.
C13_RecordAfterExchange ==
    lastExchange # NoExchange =>
        LET body == lastExchange.response.body
            lifetime == IF "expires_in" \in DOMAIN body THEN body["expires_in"] ELSE 3600
        IN /\ token.accessToken = body["access_token"]
           /\ token.expiresIn = lifetime
           /\ token.expiresAt = lastExchange.at + lifetime

\* a later call, at a later time, that did not refresh still sees the record
\* of an exchange whose reply had no expires_in
C13_Witness ==
    /\ lastExchange # NoExchange
    /\ "expires_in" \notin DOMAIN lastExchange.response.body
    /\ now > lastExchange.at
    /\ pc[1] = "returned" /\ call[1].branch = "valid"
    /\ token.expiresIn = 3600

\* C14: a 2xx response without access_token makes the call return false and
\* leaves the record and the file as they were, even when the response
\* carries refresh_token or expires_in.
C14_MissingAccessToken ==
    \A t \in Tasks :
        LET resp == call[t].response
        IN (resp.curl = "ok" /\ Is2xx(resp.http) /\ "access_token" \notin DOMAIN resp.body) =>
             /\ pc[t] = "returned"
             /\ call[t].ret = "false"
             /\ Untouched(t)

\* the rejected reply carried a new refresh token and a lifetime
C14_Witness ==
    /\ call[1].response.curl = "ok" /\ Is2xx(call[1].response.http)
    /\ DOMAIN call[1].response.body = {"refresh_token", "expires_in"}
    /\ call[1].response.body["refresh_token"] = "S"
    /\ call[1].ret = "false"

\* C15: when ensureValidToken returns true as the result of a refresh made
\* in that call, the token file has been rewritten and holds the new access
\* token, the current refresh token and the new expires_in.
C15_PersistedBeforeTrue ==
    \A t \in Tasks :
        (pc[t] = "returned" /\ call[t].branch = "refresh" /\ call[t].ret = "true") =>
            /\ file.exists
            /\ {"access_token", "refresh_token", "expires_in"} \subseteq DOMAIN file.json
            /\ file.json["access_token"] = token.accessToken
            /\ file.json["refresh_token"] = token.refreshToken
            /\ file.json["expires_in"] = token.expiresIn

\* C16: a call sends at most one token-endpoint request, and a call whose
\* request failed (transport error, non-2xx status, missing access_token)
\* has returned false after that single request.
C16_NoRetry ==
    \A t \in Tasks :
        /\ call[t].requests <= 1
        /\ (call[t].response # NoResponse /\ ~Exchanged(t)) =>
              /\ pc[t] = "returned"
              /\ call[t].ret = "false"
              /\ call[t].requests = 1

\* the transport failed and the call gave up after its only request
C16_Witness ==
    /\ pc[1] = "returned"
    /\ call[1].response.curl = "error"
    /\ call[1].requests = 1
    /\ call[1].ret = "false"

\* the replies with a status outside 200..299
ErrorReplies == {resp \in ExchangeResponses : resp.curl = "ok" /\ ~Is2xx(resp.http)}

\* C17: a non-2xx reply makes the call return false with the record and the
\* file unchanged, and two such replies that differ in error code or error
\* description leave the same result and the same record.
C17_ClassificationIsDiagnosticOnly ==
    /\ \A t \in Tasks :
         (call[t].response.curl = "ok" /\ ~Is2xx(call[t].response.http)) =>
             /\ pc[t] = "returned"
             /\ call[t].ret = "false"
             /\ Untouched(t)
    /\ \A r1, r2 \in ErrorReplies :
         ApplyResponse(token, r1, now) = ApplyResponse(token, r2, now)

\* an invalid_grant reply with a description was received and the call
\* returned false
C17_Witness ==
    /\ call[1].response.curl = "ok" /\ call[1].response.http = 400
    /\ call[1].diagnostic.code = "invalid_grant"
    /\ call[1].diagnostic.detail[1] = "Error Description: "
    /\ call[1].ret = "false"

\* the remediation category of each block of hints, and of each error code
CategoryOfHint(hint) ==
    CASE hint = "application_not_found" -> "ConfigurationError"
      [] hint \in {"invalid_client_secret", "assertion_or_secret_required"} -> "CredentialError"
      [] hint = "invalid_scope" -> "ScopeError"
      [] hint = "fresh_authentication_required" -> "ReauthRequired"
      [] hint = "invalid_grant" -> "ExpiredGrantError"
      [] OTHER -> "UnknownProviderError"

CategoryOfCode(errorCode) ==
    CASE errorCode \in {"invalid_grant", "AADSTS40016"} -> "ExpiredGrantError"
      [] errorCode = "AADSTS700016" -> "ConfigurationError"
      [] errorCode \in {"AADSTS7000215", "AADSTS7000218"} -> "CredentialError"
      [] errorCode = "AADSTS70011" -> "ScopeError"
      [] errorCode = "AADSTS50173" -> "ReauthRequired"
      [] OTHER -> "UnknownProviderError"

\* C18: the diagnostic of a non-2xx reply depends on the error code alone:
\* invalid_grant and AADSTS40016 are reported as an expired grant,
\* AADSTS700016 as a configuration error, AADSTS7000215 and AADSTS7000218 as
\* a credential error, AADSTS70011 as a scope error, AADSTS50173 as
\* re-authentication required, and every other code (or none) as unknown,
\* with the raw error_description, or the raw body when there is none.
C18_ErrorClassification ==
    \A t \in Tasks :
        LET resp == call[t].response
            d == call[t].diagnostic
            body == resp.body
        IN (resp.curl = "ok" /\ ~Is2xx(resp.http)) =>
             /\ d.code = IF "error" \in DOMAIN body THEN body["error"] ELSE ""
             /\ CategoryOfHint(d.hint) = CategoryOfCode(d.code)
             /\ d.detail = IF "error_description" \in DOMAIN body
                              /\ body["error_description"] # ""
                           THEN <<"Error Description: ", body["error_description"]>>
                           ELSE <<"Response: ", body>>

\* an AADSTS40016 reply was reported with the invalid-grant hints
C18_Witness ==
    /\ call[1].diagnostic.code = "AADSTS40016"
    /\ call[1].diagnostic.hint = "invalid_grant"
    /\ call[1].ret = "false"

\* C19: saving a record r and loading the file back yields the accessToken
\* and refreshToken of r and an expiresAt within 1 second of r.expiresAt, for
\* every record r, a non-expiring one (expiresAt = 0) and one loaded from an
\* older acquired_at included.
C19_SaveLoadRoundTrip ==
    pc[1] = "reloaded" =>
        LET r == call[1].entryToken
        IN /\ token.accessToken = r.accessToken
           /\ token.refreshToken = r.refreshToken
           /\ token.expiresAt - r.expiresAt <= 1
           /\ r.expiresAt - token.expiresAt <= 1

\* n is norm(v) for the file value v = v[1] * 10^6 + v[2]: v \div 1000 when
\* v > 10^12, and v otherwise
IsNormOf(n, v) ==
    IF v[1] > 1000000 \/ (v[1] = 1000000 /\ v[2] > 0)
    THEN n \div 1000 = v[1] /\ n % 1000 = v[2] \div 1000
    ELSE n \div 1000000 = v[1] /\ n % 1000000 = v[2]

\* C20: a loaded record has expiresIn = the file's expires_in (3600 when
\* absent) and expiresAt = norm(acquired_at) + expiresIn when acquired_at is
\* present (also when expires_at is present too), else norm(expires_at) when
\* expires_at is present, else 0.
C20_LoadedExpiry ==
    pc[1] \in {"loaded", "reloaded"} =>
        LET f == call[1].entryFile
            lifetime == IF "expires_in" \in DOMAIN f THEN f["expires_in"] ELSE 3600
        IN /\ token.expiresIn = lifetime
           /\ IF "acquired_at" \in DOMAIN f
              THEN IsNormOf(token.expiresAt - lifetime, f["acquired_at"])
              ELSE IF "expires_at" \in DOMAIN f
                   THEN IsNormOf(token.expiresAt, f["expires_at"])
                   ELSE token.expiresAt = 0

\* a file with acquired_at in milliseconds, an expires_at and no expires_in
C20_Witness ==
    /\ pc[1] = "loaded"
    /\ DOMAIN call[1].entryFile = {"access_token", "acquired_at", "expires_at"}
    /\ call[1].entryFile["acquired_at"] = LongMillis(StartTime - 1800)
    /\ token.expiresAt = StartTime + 1800

\* C21: two client assertions generated by the signer, also two generated
\* within the same clock second, carry distinct jti values (stated for the
\* assertions of two consecutive refresh attempts).
C21_UniqueJti ==
    [][(/\ calls' = calls + 1
        /\ call[1].clientAssertion # EmptyAssertion
        /\ call'[1].clientAssertion # EmptyAssertion)
       => call'[1].clientAssertion[2].jti # call[1].clientAssertion[2].jti]_vars

\* C22: every client assertion has iss = sub = clientId, nbf = the time of
\* generation, exp = nbf + 3600 and aud = the token-endpoint URL of the
\* tenant, which is the URL the request carrying the assertion is sent to;
\* it has three segments and the signature is made over header and payload.
C22_AssertionClaims ==
    \A t \in Tasks :
        LET jwt == call[t].clientAssertion
        IN jwt # EmptyAssertion =>
             /\ Len(jwt) = 3
             /\ jwt[2].iss = config.clientId
             /\ jwt[2].sub = config.clientId
             /\ jwt[2].nbf = call[t].currentTime
             /\ jwt[2].exp = jwt[2].nbf + 3600
             /\ jwt[2].aud = <<"https://login.microsoftonline.com/", config.tenantId,
                              "/oauth2/v2.0/token">>
             /\ jwt[3].input = <<jwt[1], jwt[2]>>
             /\ call[t].requests = 1 =>
                   /\ call[t].request.endpoint = jwt[2].aud
                   /\ call[t].request.body["client_assertion"] = jwt

\* a request carrying an assertion was sent
C22_Witness ==
    /\ call[1].clientAssertion # EmptyAssertion
    /\ call[1].requests = 1
    /\ call[1].request.body["client_assertion"] = call[1].clientAssertion

\* the token file holds a non-empty access token
FileOffersToken == file.exists /\ "access_token" \in DOMAIN file.json
                      /\ file.json["access_token"] # ""

\* C23: once a call has loaded the token file, later ensureValidToken and
\* getAccessToken calls work on the in-memory record and never on the file,
\* whatever has been written to the file since; a record loaded with an
\* empty access token makes every later call return false.
C23_LoadedOnce ==
    /\ [][(tokenLoaded /\ calls' = calls + 1) =>
             (call'[1].entryToken = token /\ ~call'[1].loaded)]_vars
    /\ [][(tokenLoaded /\ got' # got) => got' = token.accessToken]_vars
    /\ [][(tokenLoaded /\ token.accessToken = "" /\ calls' = calls + 1) =>
             (call'[1].ret = "false" /\ token' = token)]_vars

\* the record was loaded with an empty access token, the file has since been
\* replaced by one with a token, and a later call still returned false
C23_Witness ==
    /\ tokenLoaded /\ token.accessToken = ""
    /\ calls = 2 /\ ~call[1].loaded
    /\ FileOffersToken /\ call[1].entryFile = file.json
    /\ call[1].ret = "false"

\* C24: when the token file cannot be opened or has no access_token, the
\* load fails: ensureValidToken returns false, sends no request, does not
\* write the file and leaves the in-memory record empty.
C24_LoadFailure ==
    \A t \in Tasks :
        (Called(t) /\ "access_token" \notin DOMAIN call[t].entryFile) =>
         /\ ~call[t].loaded
         /\ ~tokenLoaded =>
            /\ call[t].branch = "load_failed"
            /\ pc[t] = "returned"
            /\ call[t].ret = "false"
            /\ NothingSent(t)
            /\ file.json = call[t].entryFile
            /\ token = EmptyToken

\* the file exists and holds a refresh token but no access_token
C24_Witness ==
    /\ call[1].branch = "load_failed"
    /\ file.exists /\ DOMAIN file.json = {"refresh_token"}
    /\ call[1].ret = "false"

\* C25: when the loaded record has an empty access token, ensureValidToken
\* returns false without entering the refresh path and without a request,
\* also when a refresh token and complete client credentials are there.
C25_EmptyAccessToken ==
    \A t \in Tasks :
        (Loaded(t) /\ call[t].entryToken.accessToken = "") =>
            /\ call[t].branch = "missing_access_token"
            /\ pc[t] = "returned"
            /\ call[t].ret = "false"
            /\ call[t].strategy = "none"
            /\ NothingSent(t)
            /\ Untouched(t)

\* empty access token, refresh token R, client id, tenant id and both trust
\* mechanisms configured
C25_Witness ==
    /\ Loaded(1)
    /\ call[1].entryToken.accessToken = "" /\ call[1].entryToken.refreshToken = "R"
    /\ config.clientId # "" /\ config.tenantId # "" /\ AllTrustConfigured
    /\ call[1].ret = "false"

\* C26: getAccessToken returns the in-memory accessToken (the empty string
\* before a successful load) and changes neither the record, the loaded
\* flag nor the token file and sends no request.  A step that is neither a
\* step of an ensureValidToken call nor a clock tick is a getAccessToken call.
C26_PureAccessor ==
    [][(pc' = pc /\ calls' = calls /\ now' = now) =>
          /\ got' = token.accessToken
          /\ ~tokenLoaded => got' = ""
          /\ token' = token /\ tokenLoaded' = tokenLoaded /\ file' = file
          /\ call' = call]_vars

\* getAccessToken returned the token obtained by a refresh
C26_Witness ==
    /\ pc[1] = "returned" /\ call[1].ret = "true" /\ call[1].branch = "refresh"
    /\ got = "B" /\ token.accessToken = "B"

\* C27: isTokenExpired(tokenTimestamp, expiresIn) is true exactly when
\* now - tokenTimestamp >= expiresIn - 300; with a lifetime of 3600 s a token
\* acquired now or 30 minutes ago is not expired, one acquired 3601 s or two
\* hours ago is.
C27_IsTokenExpired ==
    helperCall.fn = "isTokenExpired" =>
        LET tokenTimestamp == helperCall.args[1]
            expiresIn == helperCall.args[2]
            age == helperCall.at - tokenTimestamp
        IN /\ helperCall.result = TRUE <=> (age >= expiresIn - 300)
           /\ (expiresIn = 3600 /\ age \in {0, 1800}) => helperCall.result = FALSE
           /\ (expiresIn = 3600 /\ age \in {3601, 7200}) => helperCall.result = TRUE

\* asked exactly 3300 s after acquisition of a 3600 s token, after the clock
\* has advanced: expired
C27_Witness ==
    /\ helperCall.fn = "isTokenExpired"
    /\ helperCall.args[2] = 3600
    /\ helperCall.at - helperCall.args[1] = 3300
    /\ helperCall.at > StartTime
    /\ helperCall.result = TRUE

\* the number a string of decimal digits denotes
RECURSIVE NumericValue(_)
NumericValue(s) ==
    IF s = <<>> THEN 0
    ELSE NumericValue(SubSeq(s, 1, Len(s) - 1)) * 10
           + (CHOOSE d \in 0..9 : DigitChars[d + 1] = s[Len(s)])

\* C28: validate(code) is true exactly when code has 6 characters, all of
\* them decimal digits; every string returned by generate has exactly 6
\* decimal digits, a value within 0..999999, and is accepted by validate.
C28_VerificationCode ==
    /\ helperCall.fn = "validate" =>
          LET code == helperCall.args[1]
          IN helperCall.result = TRUE <=>
               (Len(code) = 6 /\ \A i \in 1..Len(code) :
                    code[i] \in {"0", "1", "2", "3", "4", "5", "6", "7", "8", "9"})
    /\ helperCall.fn = "generate" =>
          LET code == helperCall.result
          IN /\ Len(code) = 6
             /\ \A i \in 1..6 : code[i] \in {"0", "1", "2", "3", "4", "5", "6", "7", "8", "9"}
             /\ NumericValue(code) \in 0..999999
             /\ NumericValue(code) = helperCall.args[1]
             /\ validate(code)

\* validate was called with a code that generate returned, and accepted it
C28_Witness ==
    /\ helperCall.fn = "validate"
    /\ helperCall.args[1] = <<"9", "0", "9", "0", "0", "9">>
    /\ helperCall.result = TRUE

\* C29: once an exchange has succeeded, whenever a call returns true the
\* access token and the refresh token in the token file equal the in-memory
\* ones, also when the write of the token file failed in an earlier call.
C29_FileAgreesWithRecord ==
    \A t \in Tasks :
        (lastExchange # NoExchange /\ pc[t] = "returned" /\ call[t].ret = "true") =>
            /\ file.exists
            /\ {"access_token", "refresh_token"} \subseteq DOMAIN file.json
            /\ file.json["access_token"] = token.accessToken
            /\ file.json["refresh_token"] = token.refreshToken

\* C30: whenever ensureValidToken has returned true, getAccessToken returns
\* a non-empty string, on the path without refresh and after a refresh whose
\* 2xx response carried an empty access_token.
C30_TrueMeansToken ==
    \A t \in Tasks :
        (pc[t] = "returned" /\ call[t].ret = "true") => token.accessToken # ""

\* the step in which a call of task t hands true to its caller
ReturnsTrue(t) ==
    /\ pc'[t] = "returned" /\ call'[t].ret = "true"
    /\ (pc[t] # "returned" \/ calls' # calls)

\* C31: at the moment ensureValidToken returns true the in-memory token is
\* non-expiring (expiresAt = 0) or not yet expired (now < expiresAt), for
\* every loaded record and every expires_in >= 0 in the response, 0 included.
C31_ValidAtReturn ==
    [][\A t \in Tasks :
          ReturnsTrue(t) => (token'.expiresAt = 0 \/ now' < token'.expiresAt)]_vars

\* the slot of the call made last and of the call before it (SpecRetry)
Latest == IF calls % 2 = 1 THEN 1 ELSE 2
Previous == 3 - Latest

\* the call recorded in slot t sent a request and got a transport error or a
\* non-2xx status
ExchangeFailed(t) ==
    /\ call[t].branch = "refresh" /\ call[t].requests = 1
    /\ pc[t] = "returned" /\ call[t].ret = "false"
    /\ (call[t].response.curl # "ok" \/ ~Is2xx(call[t].response.http))

\* C32: after a call returned false because the exchange failed (transport
\* error or non-2xx), the next call enters the refresh path again with the
\* same record, the request it sends carries the same refresh token to the
\* same endpoint (it sends none only when the key, the certificate or the
\* curl handle fails locally, and then returns false), and it returns true
\* when its exchange succeeds and the token file is saved.
C32_RetryAfterFailedExchange ==
    (calls >= 2 /\ ExchangeFailed(Previous) /\ Called(Latest)) =>
        LET p == call[Previous]
            n == call[Latest]
        IN /\ n.branch = "refresh"
           /\ ~n.loaded
           /\ n.entryToken = p.entryToken
           /\ n.entryToken.refreshToken = p.request.body["refresh_token"]
           /\ n.strategy = p.strategy
           /\ n.requests = 1 =>
                 /\ n.request.endpoint = p.request.endpoint
                 /\ n.request.body["refresh_token"] = p.request.body["refresh_token"]
           /\ n.requests = 0 => (n.request = NoRequest /\ n.ret = "false")
           /\ (pc[Latest] = "returned" /\ n.response.curl = "ok" /\ Is2xx(n.response.http)
                 /\ Has(n.response.body, "access_token") /\ n.pending # EmptyJson)
                  => n.ret = "true"

\* a failed exchange followed by a call whose exchange and save succeed
C32_Witness ==
    /\ calls = 2 /\ ExchangeFailed(Previous)
    /\ call[Latest].requests = 1
    /\ call[Latest].request.body["refresh_token"] = "R"
    /\ call[Latest].response.http = 200
    /\ pc[Latest] = "returned" /\ call[Latest].ret = "true"
    /\ token.accessToken = "B"

\* the call recorded in slot t failed to load the token file
LoadFailed(t) ==
    call[t].branch = "load_failed" /\ pc[t] = "returned" /\ call[t].ret = "false"

\* a token file that is valid and unexpired at the given time: a non-empty
\* access token that needs no renewal, that is, without refresh token no
\* timestamp or an expiry in the future, with refresh token an expiry more
\* than 300 s in the future
FileFresh(json, time) ==
    /\ Has(json, "access_token") /\ json["access_token"] # ""
    /\ LET renewable == Has(json, "refresh_token") /\ json["refresh_token"] # ""
           lifetime == IF Has(json, "expires_in") THEN json["expires_in"] ELSE 3600
           stamped == Has(json, "acquired_at") \/ Has(json, "expires_at")
           expiry == IF Has(json, "acquired_at")
                     THEN NormEpoch(json["acquired_at"]) + lifetime
                     ELSE NormEpoch(json["expires_at"])
       IN IF renewable THEN stamped /\ time < expiry - 300
          ELSE ~stamped \/ time < expiry

\* C33: after a call returned false because the token file was missing or
\* lacked access_token, the manager is still unloaded: the next call reads
\* the file again, loads it exactly when it now carries access_token, and
\* returns true without sending anything when the file is valid and unexpired.
C33_RetryAfterFailedLoad ==
    (calls >= 2 /\ LoadFailed(Previous) /\ Called(Latest)) =>
        LET n == call[Latest]
        IN /\ n.loaded <=> Has(n.entryFile, "access_token")
           /\ n.loaded <=> (n.branch # "load_failed")
           /\ n.loaded => n.entryToken.accessToken = n.entryFile["access_token"]
           /\ FileFresh(n.entryFile, n.currentTime) =>
                 (pc[Latest] = "returned" /\ n.ret = "true" /\ NothingSent(Latest))

\* a missing file, a failed call, a file provided by the helper, a call
\* that returns true
C33_Witness ==
    /\ calls = 2 /\ LoadFailed(Previous)
    /\ call[Previous].entryFile = EmptyJson
    /\ call[Latest].loaded
    /\ call[Latest].entryFile # EmptyJson
    /\ FileFresh(call[Latest].entryFile, call[Latest].currentTime)
    /\ call[Latest].ret = "true"

\* C34: the manager never deletes the refresh token: a non-empty in-memory
\* refreshToken stays non-empty over every step of every call, successful or
\* failed; the text of every file write carries the in-memory refresh token,
\* which is non-empty; and the token file, when the manager changes it, is
\* either the file just opened for writing or holds a non-empty refresh_token.
C34_RefreshTokenKept ==
    [][/\ token.refreshToken # "" => token'.refreshToken # ""
       /\ \A t \in Tasks :
            (call'[t].pending # call[t].pending /\ call'[t].pending # EmptyJson) =>
                /\ Has(call'[t].pending, "refresh_token")
                /\ call'[t].pending["refresh_token"] = token'.refreshToken
                /\ call'[t].pending["refresh_token"] # ""
       /\ (file' # file /\ file'.json # EmptyJson) =>
                /\ Has(file'.json, "refresh_token")
                /\ file'.json["refresh_token"] # ""]_vars

\* a 2xx reply with an empty refresh_token was accepted and saved, and the
\* record and the file still hold the refresh token that was sent
C34_Witness ==
    /\ pc[1] = "returned" /\ call[1].ret = "true"
    /\ Has(call[1].response.body, "refresh_token")
    /\ call[1].response.body["refresh_token"] = ""
    /\ token.refreshToken = "R"
    /\ Has(file.json, "refresh_token") /\ file.json["refresh_token"] = "R"

\* C35: OAuthHelper::isTokenExpired(acquiredAt, expiresIn) is true exactly
\* when a manager that loaded acquired_at = acquiredAt (in seconds) and
\* expires_in = expiresIn into a record with a refresh token decides, at the
\* same clock value, to refresh.
C35_ExpiryPredicatesAgree ==
    (/\ helperCall.fn = "isTokenExpired"
     /\ Called(1) /\ call[1].branch # "load_failed"
     /\ call[1].entryToken.refreshToken # ""
     /\ Has(call[1].entryFile, "acquired_at") /\ Has(call[1].entryFile, "expires_in")
     /\ helperCall.args = <<call[1].entryFile["acquired_at"][1] * Million
                               + call[1].entryFile["acquired_at"][2],
                            call[1].entryFile["expires_in"]>>
     /\ helperCall.at = call[1].currentTime)
        => (helperCall.result <=> (call[1].branch = "refresh"))

\* the client negotiates STARTTLS
UsesStartTls(c) == c.useSsl /\ c.port # 465

\* C36: during SmtpClient::connect, once the 220 greeting has been read, EHLO
\* (and STARTTLS, and the second EHLO, when useSsl is set and the port is not
\* 465) is transmitted before the client waits for its reply, and connect
\* returns true only after the replies 250 (220, 250) were received.
C36_SmtpHandshakeOrder ==
    (client.kind = "smtp" /\ client.op = "connect" /\ client.log # <<>>
        /\ client.log[1] = <<"recv", "220">>) =>
        LET log == client.log
            full == IF UsesStartTls(client) THEN 7 ELSE 3
        IN /\ Len(log) >= 3 /\ Len(log) <= full
           /\ \A i \in 1..Len(log) :
                 /\ log[i][1] = (IF i % 2 = 1 THEN "recv" ELSE "send")
                 /\ i \in {2, 6} => log[i][2] = "EHLO"
                 /\ i = 4 => log[i][2] = "STARTTLS"
           /\ client.ret = "true" =>
                 /\ Len(log) = full
                 /\ log[3][2] = "250"
                 /\ full = 7 => (log[5][2] = "220" /\ log[7][2] = "250")

\* one message accepted by the server: the commands and the replies to them
AcceptedMail ==
    <<<<"send", "MAIL FROM">>, <<"recv", "250">>, <<"send", "RCPT TO">>, <<"recv", "250">>,
      <<"send", "DATA">>, <<"recv", "354">>, <<"send", "message">>, <<"send", ".">>,
      <<"recv", "250">>>>

====
